---- MODULE Spec2Model ----
(***************************************************************************)
(* A model of student.py: the Harris corner detector get_interest_points,  *)
(* the SIFT-like descriptor get_features and the ratio-test matcher        *)
(* match_features.  Each function is one state machine over its own local  *)
(* variables: SpecDetect, SpecDescribe and SpecMatch each follow one call   *)
(* of one function, the variables of the other two held at empty values.   *)
(*                                                                         *)
(* Arrays are functions over 0..n-1, as numpy indexes them; Python lists   *)
(* that are only appended to are sequences.  Floating point values are     *)
(* modelled exactly: the inputs are drawn from sets on which every value   *)
(* the code computes is an integer or a ratio of two integers.             *)
(***************************************************************************)
EXTENDS Integers, Sequences, FiniteSets

VARIABLES
  pc,             \* position in the running function, "done" after return
  raised,         \* the exception that ended the call, "" when none
  im1_features,   \* match_features: N1 descriptor rows
  im2_features,   \* match_features: N2 descriptor rows
  i,              \* match_features: the loop index of line 231
  matches,        \* match_features: the list of [i, j] pairs
  confidences,    \* match_features: the list, then array, of confidences
  shape,          \* image.shape: <<height, width>>
  feature_width,  \* the feature_width argument
  dx,             \* get_interest_points: the smoothed gradient map of line 58
  dy,             \* get_interest_points: the smoothed gradient map of line 59
  y,              \* get_interest_points: the loop variable of line 65;
                  \* get_features: the array of y coordinates
  x,              \* get_interest_points: the loop variable of line 66;
                  \* get_features: the array of x coordinates
  xs,             \* get_interest_points: the list of x coordinates
  ys,             \* get_interest_points: the list of y coordinates
  evaluated,      \* get_interest_points: y, x, Sxx, Syy, Sxy of every
                  \* iteration of the inner loop so far, in order
  grad,           \* get_features: the gradient magnitude map of line 149
  thetas,         \* get_features: the orientation map of lines 150-151,
                  \* in units of pi/8
  m,              \* get_features: the loop index of line 152
  slice,          \* get_features: i1, i2[-1], j1, j2[-1] of lines 165-170
  cells,          \* get_features: the slots features[m, i, j] written by the
                  \* cell loop of the last point, each with the bounds of
                  \* the slices of lines 173-177
  features        \* get_features: the features array

matchVars == <<im1_features, im2_features, i, matches, confidences>>
detectVars == <<dx, dy, xs, ys, evaluated>>
describeVars == <<grad, thetas, m, slice, cells, features>>
vars == <<pc, raised, shape, feature_width, x, y, matchVars, detectVars,
          describeVars>>

(***************************************************************************)
(* Bounds of the model.                                                    *)
(***************************************************************************)
MaxN1 == 2
MaxN2 == 3
MaxSide == 7
MaxWidth == 5
MaxCells == 5
MaxPoints == 2

(***************************************************************************)
(* numpy helpers.                                                          *)
(***************************************************************************)
\* a.shape[0] of an array held as a function over 0..n-1
Len0(a) == Cardinality(DOMAIN a)

\* all arrays of n elements of S
Arrays(n, S) == [0..(n - 1) -> S]

RECURSIVE SumSq(_, _, _)
\* ((a - b) ** 2).sum() over the first k components
SumSq(a, b, k) ==
  IF k = 0 THEN 0 ELSE (a[k] - b[k]) * (a[k] - b[k]) + SumSq(a, b, k - 1)

\* np.sqrt, exact: the model's inputs keep every argument a perfect square
Sqrt(n) == CHOOSE r \in 0..n : r * r = n

(***************************************************************************)
(* match_features                                                          *)
(***************************************************************************)
\* Descriptor rows of the model: the corners of a 3 x 4 rectangle, so that
\* every Euclidean distance between two rows is one of 0, 3, 4, 5.
DescriptorRows == {<<a, b>> : a \in {0, 3}, b \in {0, 4}}

\* line 233: the distances from one row of im1_features to every row of
\* im2_features
Distances(row, feats) ==
  [j \in DOMAIN feats |-> Sqrt(SumSq(row, feats[j], Len(row)))]

\* line 236: np.argsort(distance); the order of equal distances is left to
\* the sort, so every sorting permutation is a possible result
ArgSorts(distance) ==
  {p \in [DOMAIN distance -> DOMAIN distance] :
     /\ \A a, b \in DOMAIN distance : a # b => p[a] # p[b]
     /\ \A a, b \in DOMAIN distance : a < b => distance[p[a]] <= distance[p[b]]}

\* RatioTest with a fault seeded: the comparison is not strict
RatioTestNotStrict(d0, d1) == 10 * d0 <= 8 * d1

\* line 239: distance[sorted_distances[0]] < 0.8 * distance[sorted_distances[1]]
RatioTest(d0, d1) == 10 * d0 < 8 * d1

\* Floating point results as ratios num/den; den = 0 encodes the results of
\* a division by zero: 0/0 is not-a-number, 1 - x/0 is minus infinity.
NaN == [num |-> 0, den |-> 0]
NegInf == [num |-> -1, den |-> 0]
IsNaN(c) == c.den = 0 /\ c.num = 0

\* Confidence with a fault seeded: the ratio itself, not its complement
ConfidenceRatio(d0, d1) ==
  IF d1 = 0 THEN (IF d0 = 0 THEN NaN ELSE NegInf)
  ELSE [num |-> d0, den |-> d1]

\* line 241: 1.0 - distance[sorted_distances[0]] / distance[sorted_distances[1]]
Confidence(d0, d1) ==
  IF d1 = 0 THEN (IF d0 = 0 THEN NaN ELSE NegInf)
  ELSE [num |-> d1 - d0, den |-> d1]

\* a <= b on non-NaN floating point results
Leq(a, b) ==
  IF a.den = 0 THEN TRUE
  ELSE IF b.den = 0 THEN FALSE
  ELSE a.num * b.den <= b.num * a.den

\* np.min of a non-empty set of non-NaN results
NpMin(S) == CHOOSE v \in S : \A w \in S : Leq(v, w)

\* MatchEntry with a fault seeded: the two columns are swapped
MatchEntrySwapped(row, sorted_distances) == <<sorted_distances[0], row>>

\* line 240: the pair appended to matches
MatchEntry(row, sorted_distances) == <<row, sorted_distances[0]>>

InitMatch ==
  /\ pc = "match_loop"
  /\ raised = ""
  /\ \E n1 \in 0..MaxN1 : im1_features \in Arrays(n1, DescriptorRows)
  /\ \E n2 \in 0..MaxN2 : im2_features \in Arrays(n2, DescriptorRows)
  /\ i = 0
  /\ matches = <<>>
  /\ confidences = <<>>
  /\ shape = <<0, 0>>
  /\ feature_width = 0
  /\ dx = <<>> /\ dy = <<>> /\ y = 0 /\ x = 0
  /\ xs = <<>> /\ ys = <<>> /\ evaluated = <<>>
  /\ grad = <<>> /\ thetas = <<>> /\ m = 0
  /\ slice = <<>> /\ cells = <<>> /\ features = <<>>

\* lines 231-241: one iteration of the loop over the rows of im1_features
MatchRow ==
  /\ pc = "match_loop"
  /\ i < Len0(im1_features)
  /\ LET distance == Distances(im1_features[i], im2_features) IN
       IF Len0(im2_features) < 2
       THEN \* sorted_distances[0] or sorted_distances[1] is out of range
            /\ pc' = "error"
            /\ raised' = "IndexError"
            /\ UNCHANGED <<i, matches, confidences>>
       ELSE \E sorted_distances \in ArgSorts(distance) :
              LET d0 == distance[sorted_distances[0]]
                  d1 == distance[sorted_distances[1]]
              IN /\ IF RatioTest(d0, d1)
                    THEN /\ matches' = Append(matches, MatchEntry(i, sorted_distances))
                         /\ confidences' = Append(confidences, Confidence(d0, d1))
                    ELSE UNCHANGED <<matches, confidences>>
                 /\ i' = i + 1
                 /\ UNCHANGED <<pc, raised>>
  /\ UNCHANGED <<im1_features, im2_features>>
  /\ UNCHANGED <<shape, feature_width, x, y, detectVars, describeVars>>

\* lines 243-246: the NaN substitution and the return
MatchReturn ==
  /\ pc = "match_loop"
  /\ i = Len0(im1_features)
  /\ LET valid == {confidences[k] : k \in {n \in DOMAIN confidences : ~IsNaN(confidences[n])}}
     IN IF valid = {}
        THEN \* np.min of a zero-size array
             /\ pc' = "error"
             /\ raised' = "ValueError"
             /\ UNCHANGED confidences
        ELSE /\ confidences' =
                  [k \in DOMAIN confidences |->
                     IF IsNaN(confidences[k]) THEN NpMin(valid) ELSE confidences[k]]
             /\ pc' = "done"
             /\ UNCHANGED raised
  /\ UNCHANGED <<im1_features, im2_features, i, matches>>
  /\ UNCHANGED <<shape, feature_width, x, y, detectVars, describeVars>>

NextMatch == MatchRow \/ MatchReturn

SpecMatch == InitMatch /\ [][NextMatch]_vars

(***************************************************************************)
(* Properties of match_features.                                           *)
(***************************************************************************)
N1 == Len0(im1_features)
N2 == Len0(im2_features)

\* the Euclidean distance from row r of im1_features to row j of im2_features
Dist(r, j) ==
  Sqrt(SumSq(im1_features[r], im2_features[j], Len(im1_features[r])))

\* the rows of im2_features nearest to row r of im1_features
Nearest(r) == {j \in 0..(N2 - 1) : \A k \in 0..(N2 - 1) : Dist(r, j) <= Dist(r, k)}

\* d1: the smallest distance from row r
SmallestDist(r) == Dist(r, CHOOSE j \in Nearest(r) : TRUE)

\* d2: the second-smallest distance from row r, the smallest once one
\* nearest row is set aside
SecondDist(r) ==
  LET j1 == CHOOSE j \in Nearest(r) : TRUE
      rest == (0..(N2 - 1)) \ {j1}
  IN Dist(r, CHOOSE j \in rest : \A k \in rest : Dist(r, j) <= Dist(r, k))

\* d1 < 0.8 * d2 for row r
PassesRatio(r) == 10 * SmallestDist(r) < 8 * SecondDist(r)

\* the positions of the match list whose first column is r
EntriesOf(r) == {k \in DOMAIN matches : matches[k][1] = r}

\* C1: in the returned match list no value occurs twice in the first column
\* (so K <= N1), every first-column index is in [0, N1) and every
\* second-column index is in [0, N2).
C1_MatchIndices ==
  pc = "done" =>
    /\ \A a, b \in DOMAIN matches : a # b => matches[a][1] # matches[b][1]
    /\ Len(matches) <= N1
    /\ \A k \in DOMAIN matches :
         /\ matches[k][1] \in 0..(N1 - 1)
         /\ matches[k][2] \in 0..(N2 - 1)

\* a call that returned a match for each of two rows, both to the same row
\* of im2_features
C1_Witness ==
  /\ pc = "done"
  /\ N1 = 2
  /\ Len(matches) = 2
  /\ matches[1][2] = matches[2][2]

\* C2: a row r of im1_features has a match in the returned list iff
\* d1 < 0.8 * d2, and then the match is (r, j) with j a row of im2_features
\* at distance d1; rows failing the test have no entry.
C2_RatioTest ==
  pc = "done" =>
    \A r \in 0..(N1 - 1) :
      /\ (EntriesOf(r) # {}) <=> PassesRatio(r)
      /\ \A k \in EntriesOf(r) : matches[k][2] \in Nearest(r)

\* a call that returned a match for one row and none for a row whose
\* distances are 4 and 5, where d1 = 0.8 * d2 exactly
C2_Witness ==
  /\ pc = "done"
  /\ \E r \in 0..(N1 - 1) : EntriesOf(r) # {}
  /\ \E r \in 0..(N1 - 1) :
       EntriesOf(r) = {} /\ SmallestDist(r) = 4 /\ SecondDist(r) = 5

\* 1 - d1/d2 of the rows that have a match and whose value is a number
ValidConfidences ==
  {[num |-> SecondDist(matches[k][1]) - SmallestDist(matches[k][1]),
    den |-> SecondDist(matches[k][1])] :
     k \in {n \in DOMAIN matches : SecondDist(matches[n][1]) # 0}}

\* C3: every returned confidence equals 1 - d1/d2 of its match or, where that
\* is not-a-number, the minimum valid confidence of the call; every returned
\* confidence lies in [0, 1] and none is not-a-number.
C3_Confidences ==
  pc = "done" =>
    /\ Len(confidences) = Len(matches)
    /\ \A k \in DOMAIN confidences :
         LET c == confidences[k]
             d1 == SmallestDist(matches[k][1])
             d2 == SecondDist(matches[k][1])
         IN /\ c.den > 0
            /\ 0 <= c.num
            /\ c.num <= c.den
            /\ IF d2 # 0
               THEN c.num * d2 = (d2 - d1) * c.den
               ELSE /\ \A v \in ValidConfidences : c.num * v.den <= v.num * c.den
                    /\ \E v \in ValidConfidences : c.num * v.den = v.num * c.den

\* a call that returned two different confidences, 1/4 (distances 3 and 4)
\* and 1 (distances 0 and anything positive)
C3_Witness ==
  /\ pc = "done"
  /\ \E k \in DOMAIN confidences :
       confidences[k].num * 4 = confidences[k].den
  /\ \E k \in DOMAIN confidences :
       confidences[k].num = confidences[k].den

\* C4: with N2 >= 2 every call returns normally a match list and a
\* confidence array of the same length K, 0 <= K <= N1, also when no row
\* passes the ratio test.
C4_ReturnsNormally ==
  N2 >= 2 =>
    /\ raised = ""
    /\ pc = "done" => Len(matches) = Len(confidences) /\ Len(matches) <= N1

(***************************************************************************)
(* get_interest_points                                                     *)
(***************************************************************************)
\* lines 48-50, in thousandths where the value is a fraction
AlphaPerMille == 30
thresholdPerMille == 5
stride == 2

\* lines 52-53
image_rows == shape[1]
columns == shape[2]

\* the pixels of an image of the given shape, as <<row, column>>
Pixels(shp) == (0..(shp[1] - 1)) \X (0..(shp[2] - 1))

\* a map that is v at pixel p and 0 elsewhere
Impulse(shp, p, v) == [q \in Pixels(shp) |-> IF q = p THEN v ELSE 0]

\* The gradient maps dx, dy the model starts from (the output of cv2.Sobel
\* and skimage's gaussian, lines 56-59, which lie in [0, 1]): a flat image,
\* or one unit response in dx at p and one in dy at p or at the pixel below
\* it (wrapping to row 0).
GradientPairs(shp) ==
  {<<Impulse(shp, <<0, 0>>, 0), Impulse(shp, <<0, 0>>, 0)>>}
  \cup {<<Impulse(shp, p, 1), Impulse(shp, p, 1)>> : p \in Pixels(shp)}
  \cup {<<Impulse(shp, p, 1), Impulse(shp, <<(p[1] + 1) % shp[1], p[2]>>, 1)>> :
          p \in Pixels(shp)}

\* the indices a[lo:hi] selects on an axis of length n, for 0 <= lo
Slice(lo, hi, n) == {k \in 0..(n - 1) : lo <= k /\ k < hi}

RECURSIVE SumOver(_, _)
\* np.sum of the map f over the pixels S
SumOver(f, S) ==
  IF S = {} THEN 0
  ELSE LET p == CHOOSE q \in S : TRUE IN f[p] + SumOver(f, S \ {p})

\* int(n / d) for d > 0: Python's int() truncates toward zero
Trunc(n, d) == IF n >= 0 THEN n \div d ELSE -((-n) \div d)

\* ScanStop with a fault seeded: the last window position is included
ScanStopInclusive(n) == n - feature_width + 1

\* lines 65-66: the stop of range(0, n - feature_width, stride)
ScanStop(n) == n - feature_width

\* lines 67-69: the pixels of the slice [y:y + feature_width + 1, x:x + feature_width + 1]
Window(wy, wx) ==
  Slice(wy, wy + feature_width + 1, image_rows)
    \X Slice(wx, wx + feature_width + 1, columns)

\* lines 61-63
dx2 == [p \in DOMAIN dx |-> dx[p] * dx[p]]
dy2 == [p \in DOMAIN dy |-> dy[p] * dy[p]]
dxy == [p \in DOMAIN dx |-> dx[p] * dy[p]]

\* lines 70-74: R > threshold, with R = detH - Alpha * traceH ** 2
AboveThreshold(sxx, syy, sxy) ==
  LET detH == sxx * syy - sxy * sxy
      traceH == sxx + syy
  IN 1000 * detH - AlphaPerMille * traceH * traceH > thresholdPerMille

\* lines 75-76: int(feature_width / 2 - 1)
CentreOffset == Trunc(feature_width - 2, 2)

InitDetect ==
  /\ pc = "detect_outer"
  /\ raised = ""
  /\ shape \in (1..MaxSide) \X (1..MaxSide)
  /\ feature_width \in 1..MaxWidth
  /\ \E g \in GradientPairs(shape) : dx = g[1] /\ dy = g[2]
  /\ y = 0 /\ x = 0
  /\ xs = <<>> /\ ys = <<>> /\ evaluated = <<>>
  /\ im1_features = <<>> /\ im2_features = <<>> /\ i = 0
  /\ matches = <<>> /\ confidences = <<>>
  /\ grad = <<>> /\ thetas = <<>> /\ m = 0
  /\ slice = <<>> /\ cells = <<>> /\ features = <<>>

\* line 65: the outer loop takes its next y and starts the inner loop
DetectRow ==
  /\ pc = "detect_outer"
  /\ y < ScanStop(image_rows)
  /\ pc' = "detect_inner"
  /\ x' = 0
  /\ UNCHANGED <<raised, shape, feature_width, y, detectVars, matchVars, describeVars>>

\* lines 66-76: one iteration of the inner loop
DetectWindow ==
  /\ pc = "detect_inner"
  /\ x < ScanStop(columns)
  /\ LET Sxx == SumOver(dx2, Window(y, x))
         Syy == SumOver(dy2, Window(y, x))
         Sxy == SumOver(dxy, Window(y, x))
     IN /\ evaluated' = Append(evaluated,
              [y |-> y, x |-> x, Sxx |-> Sxx, Syy |-> Syy, Sxy |-> Sxy])
        /\ IF AboveThreshold(Sxx, Syy, Sxy)
           THEN /\ xs' = Append(xs, x + CentreOffset)
                /\ ys' = Append(ys, y + CentreOffset)
           ELSE UNCHANGED <<xs, ys>>
  /\ x' = x + stride
  /\ UNCHANGED <<pc, raised, shape, feature_width, dx, dy, y, matchVars, describeVars>>

\* line 66: the inner range is exhausted, the outer loop steps
DetectRowEnd ==
  /\ pc = "detect_inner"
  /\ ~(x < ScanStop(columns))
  /\ y' = y + stride
  /\ pc' = "detect_outer"
  /\ UNCHANGED <<raised, shape, feature_width, x, detectVars, matchVars, describeVars>>

\* line 77: the outer range is exhausted, the lists are returned as arrays
DetectReturn ==
  /\ pc = "detect_outer"
  /\ ~(y < ScanStop(image_rows))
  /\ pc' = "done"
  /\ UNCHANGED <<raised, shape, feature_width, x, y, detectVars, matchVars, describeVars>>

NextDetect == DetectRow \/ DetectWindow \/ DetectRowEnd \/ DetectReturn

SpecDetect == InitDetect /\ [][NextDetect]_vars

(***************************************************************************)
(* Properties of get_interest_points.                                      *)
(***************************************************************************)
H == shape[1]
W == shape[2]

\* C7: when feature_width >= H or feature_width >= W, no window is
\* evaluated, no error is raised, the loops step on to the return without a
\* window evaluation and the two returned arrays are empty.
C7_EmptyScan ==
  (feature_width >= H \/ feature_width >= W) =>
    /\ evaluated = <<>>
    /\ raised = ""
    /\ pc # "done" => ENABLED (DetectRow \/ DetectRowEnd \/ DetectReturn)
    /\ pc = "done" => xs = <<>> /\ ys = <<>>

\* a returned call on an image higher but not wider than feature_width, in
\* which the outer loop ran and the inner loop had nothing to do
C7_Witness ==
  /\ pc = "done"
  /\ feature_width < H
  /\ feature_width >= W
  /\ y > 0

\* C8 as stated: every returned (x, y) satisfies x < W - feature_width and
\* y < H - feature_width.
C8_PointsOutsideMargin ==
  pc = "done" =>
    \A k \in DOMAIN xs :
      xs[k] < W - feature_width /\ ys[k] < H - feature_width

\* C8 amended: the margin bounds the window position, not the returned
\* point; every returned (x, y), once the offset int(feature_width/2 - 1)
\* added to the window position is taken off, satisfies the bound.
C8_WindowsOutsideMargin ==
  pc = "done" =>
    /\ Len(xs) = Len(ys)
    /\ \A k \in DOMAIN xs :
         LET off == IF feature_width >= 2 THEN (feature_width - 2) \div 2 ELSE 0
         IN /\ 0 <= xs[k] - off /\ xs[k] - off < W - feature_width
            /\ 0 <= ys[k] - off /\ ys[k] - off < H - feature_width

\* a returned point that lies inside the margin of the right and bottom border
C8_Witness ==
  /\ pc = "done"
  /\ \E k \in DOMAIN xs :
       xs[k] >= W - feature_width /\ ys[k] >= H - feature_width

\* the window positions the claim names
ScanPositions ==
  {p \in (0..H) \X (0..W) :
     /\ p[1] % 2 = 0 /\ p[1] < H - feature_width
     /\ p[2] % 2 = 0 /\ p[2] < W - feature_width}

\* the square window of side feature_width at row wy, column wx
SquareWindow(wy, wx) ==
  (wy..(wy + feature_width - 1)) \X (wx..(wx + feature_width - 1))

\* C10: the scan visits exactly the even positions below W - feature_width
\* and H - feature_width, and at each one Sxx, Syy and Sxy are the sums of
\* the moment maps over exactly the feature_width x feature_width window at
\* that position, all of it inside the image.
C10_WindowSums ==
  /\ \A k \in DOMAIN evaluated :
       LET e == evaluated[k]
           win == SquareWindow(e.y, e.x)
       IN /\ <<e.y, e.x>> \in ScanPositions
          /\ win \subseteq Pixels(shape)
          /\ e.Sxx = SumOver([p \in win |-> dx[p] * dx[p]], win)
          /\ e.Syy = SumOver([p \in win |-> dy[p] * dy[p]], win)
          /\ e.Sxy = SumOver([p \in win |-> dx[p] * dy[p]], win)
  /\ pc = "done" =>
       {<<evaluated[k].y, evaluated[k].x>> : k \in DOMAIN evaluated} = ScanPositions

(***************************************************************************)
(* get_features                                                            *)
(*                                                                         *)
(* feature_width is a multiple of 4, as the docstring lets the function    *)
(* assume, so feature_width / 2 and i * feature_width / 4 are integers.    *)
(* The coordinates are integers, which np.round(...).astype(int) of lines  *)
(* 142-143 leaves as they are.  The maps grad and thetas (the output of    *)
(* skimage's gaussian and scharr filters, lines 146-151) are inputs.       *)
(***************************************************************************)
\* line 185, in hundredths
clipPercent == 30

FeatureWidths == {4 * k : k \in 1..MaxCells}

\* the heights and widths of the model's images for a feature width
Sides(fw) == {fw, fw + 4}

\* the coordinates of the model's points on an axis of length n: the two
\* ends, and the two places nearest the ends where the window first fits
CoordSamples(fw, n) == {0, fw \div 2 - 1, n - fw \div 2, n - 1} \cap (0..(n - 1))

\* The maps <<grad, thetas>> the model starts from, thetas in [0, 2 pi) in
\* units of pi/8: a flat image, a uniform gradient of one orientation, a
\* uniform gradient and a checkerboard gradient of varying orientation.
GradThetaMaps(shp) ==
  {<<[p \in Pixels(shp) |-> 0], [p \in Pixels(shp) |-> 0]>>,
   <<[p \in Pixels(shp) |-> 1], [p \in Pixels(shp) |-> 0]>>,
   <<[p \in Pixels(shp) |-> 1], [p \in Pixels(shp) |-> (p[1] + 3 * p[2]) % 16]>>,
   <<[p \in Pixels(shp) |-> (p[1] + p[2]) % 2],
     [p \in Pixels(shp) |-> (p[1] + 3 * p[2]) % 16]>>}

\* line 144: np.zeros((len(x), 4, 4, 8))
CellSlots == (0..3) \X (0..3)
Zeros(n) == [k \in 0..(n - 1) |-> [c \in CellSlots |-> [b \in 0..7 |-> 0]]]

\* lines 154-157 (rows) and 159-162 (cols): the tuple built from the scalar
\* coordinate c of the point and from the whole coordinate array arr, the
\* shift at the low border, and the test (... >= n).all() of the high border
WindowBounds(c, arr, n) ==
  LET lo0 == c - (feature_width \div 2 - 1)
      hi0 == [k \in DOMAIN arr |-> arr[k] + feature_width \div 2]
      lo1 == IF lo0 < 0 THEN 0 ELSE lo0
      hi1 == IF lo0 < 0 THEN [k \in DOMAIN arr |-> hi0[k] - lo0] ELSE hi0
  IN [lo |-> lo1, hi |-> hi1, high |-> \A k \in DOMAIN hi1 : hi1[k] >= n]

\* lines 169-170: the image rows and columns of grad_w and theta_w
WindowRows == Slice(slice.i1, slice.i2, shape[1])
WindowCols == Slice(slice.j1, slice.j2, shape[2])

\* lines 171-172: the (i, j) of the two nested loops, in the order visited
CellLoop(side) == [k \in 0..(side * side - 1) |-> <<k \div side, k % side>>]

\* the slots the loop writes before features[m, i, j] first fails, if it does
CellsWritten(side) ==
  LET loop == CellLoop(side)
      bad == {k \in DOMAIN loop : loop[k] \notin CellSlots}
  IN {loop[k] : k \in {n \in DOMAIN loop : \A b \in bad : n < b}}

\* lines 173-177: the slice bounds int(i * feature_width / 4) and so on
CellBounds(ci, cj) ==
  [r0 |-> (ci * feature_width) \div 4, r1 |-> ((ci + 1) * feature_width) \div 4,
   c0 |-> (cj * feature_width) \div 4, c1 |-> ((cj + 1) * feature_width) \div 4]

\* the image pixels of grad_w[r0:r1, c0:c1]
CellPixels(ci, cj) ==
  LET b == CellBounds(ci, cj) IN
  {slice.i1 + k : k \in Slice(b.r0, b.r1, Cardinality(WindowRows))}
    \X {slice.j1 + k : k \in Slice(b.c0, b.c1, Cardinality(WindowCols))}

\* lines 179-180: np.histogram(current_theta, bins=8, range=(0, 2 pi),
\* weights=current_grad)[0]; a bin is pi/4 wide
Histogram(pix) ==
  [b \in 0..7 |-> SumOver(grad, {p \in pix : thetas[p] \div 2 = b})]

\* line 181: one row of features.reshape((len(x), -1))
Flatten(f) == [n \in 0..127 |-> f[<<n \div 32, (n \div 8) % 4>>][n % 8]]

RECURSIVE SumSquares(_, _, _)
\* the sum of the squares of row[lo..hi]
SumSquares(row, lo, hi) ==
  IF lo > hi THEN 0
  ELSE IF lo = hi THEN row[lo] * row[lo]
  ELSE LET mid == (lo + hi) \div 2
       IN SumSquares(row, lo, mid) + SumSquares(row, mid + 1, hi)

\* lines 182-184: v / dev in hundredths, rounded down, where dev is the norm
\* of the row (its square is devsq) or 1 when the norm is 0
Normalised(v, devsq) ==
  IF devsq = 0 THEN 100 * v
  ELSE CHOOSE q \in 0..100 :
         q * q * devsq <= 10000 * v * v /\ 10000 * v * v < (q + 1) * (q + 1) * devsq

\* line 186: features[features >= threshold] = threshold
Clip(q) == IF q >= clipPercent THEN clipPercent ELSE q

\* line 187: q ** 0.8 in hundredths, rounded down (r^5 <= q^4 rescaled);
\* a clipped value gives a result below 0.5
Power(q) ==
  CHOOSE r \in 0..50 :
    /\ r * r * r * r * r <= 100 * q * q * q * q
    /\ 100 * q * q * q * q < (r + 1) * (r + 1) * (r + 1) * (r + 1) * (r + 1)

\* lines 181-187 for one point
Finish(f) ==
  LET row == Flatten(f)
      devsq == SumSquares(row, 0, 127)
  IN [n \in 0..127 |-> Power(Clip(Normalised(row[n], devsq)))]

InitDescribe ==
  /\ pc = "describe_window"
  /\ raised = ""
  /\ feature_width \in FeatureWidths
  /\ shape \in Sides(feature_width) \X Sides(feature_width)
  /\ \E n \in 0..MaxPoints :
       /\ x \in Arrays(n, CoordSamples(feature_width, shape[2]))
       /\ y \in Arrays(n, CoordSamples(feature_width, shape[1]))
       /\ features = Zeros(n)
  /\ \E g \in GradThetaMaps(shape) : grad = g[1] /\ thetas = g[2]
  /\ m = 0
  /\ slice = <<>>
  /\ cells = <<>>
  /\ im1_features = <<>> /\ im2_features = <<>> /\ i = 0
  /\ matches = <<>> /\ confidences = <<>>
  /\ dx = <<>> /\ dy = <<>>
  /\ xs = <<>> /\ ys = <<>> /\ evaluated = <<>>

\* lines 152-170: the window of point m.  When a high-border test holds, the
\* tuple becomes (array, int): int() of an array of more than one element
\* raises TypeError (line 165 or 167), and with one element .astype of an int
\* raises AttributeError (line 166 or 168).
DescribeWindow ==
  /\ pc = "describe_window"
  /\ m < Len0(x)
  /\ LET rows == WindowBounds(x[m], x, shape[1])
         cols == WindowBounds(y[m], y, shape[2])
         last == Len0(x) - 1
     IN IF rows.high \/ cols.high
        THEN /\ pc' = "error"
             /\ raised' = IF Len0(x) > 1 THEN "TypeError" ELSE "AttributeError"
             /\ UNCHANGED slice
        ELSE /\ slice' = [i1 |-> rows.lo, i2 |-> rows.hi[last] + 1,
                          j1 |-> cols.lo, j2 |-> cols.hi[last] + 1]
             /\ pc' = "describe_cells"
             /\ UNCHANGED raised
  /\ UNCHANGED <<shape, feature_width, x, y, grad, thetas, m, cells, features,
                 matchVars, detectVars>>

\* lines 171-180: the cell loop of point m; features[m, i, j] with i or j
\* above 3 raises IndexError
DescribeCells ==
  /\ pc = "describe_cells"
  /\ LET side == feature_width \div 4
         written == CellsWritten(side)
     IN /\ cells' = [c \in written |-> CellBounds(c[1], c[2])]
        /\ features' =
             [features EXCEPT ![m] =
                [c \in CellSlots |->
                   IF c \in written THEN Histogram(CellPixels(c[1], c[2]))
                   ELSE @[c]]]
        /\ IF written = {CellLoop(side)[k] : k \in DOMAIN CellLoop(side)}
           THEN /\ m' = m + 1
                /\ pc' = "describe_window"
                /\ UNCHANGED raised
           ELSE /\ pc' = "error"
                /\ raised' = "IndexError"
                /\ UNCHANGED m
  /\ UNCHANGED <<shape, feature_width, x, y, grad, thetas, slice,
                 matchVars, detectVars>>

\* lines 181-189: normalise, clip, raise to the power 0.8 and return
DescribeReturn ==
  /\ pc = "describe_window"
  /\ m = Len0(x)
  /\ features' = [k \in DOMAIN features |-> Finish(features[k])]
  /\ pc' = "done"
  /\ UNCHANGED <<raised, shape, feature_width, x, y, grad, thetas, m, slice,
                 cells, matchVars, detectVars>>

NextDescribe == DescribeWindow \/ DescribeCells \/ DescribeReturn

SpecDescribe == InitDescribe /\ [][NextDescribe]_vars

(***************************************************************************)
(* Properties of get_features.                                             *)
(***************************************************************************)
\* C5: for every point m of the list, the window sliced from the gradient
\* maps is feature_width rows by feature_width columns, lies inside the
\* image and contains the point (the first coordinate on axis 0, as the
\* code indexes it), whatever the other points are; no point is rejected.
C5_WindowOfPoint ==
  /\ raised \notin {"TypeError", "AttributeError"}
  /\ pc = "describe_cells" =>
       /\ Cardinality(WindowRows) = feature_width
       /\ Cardinality(WindowCols) = feature_width
       /\ WindowRows \X WindowCols \subseteq Pixels(shape)
       /\ x[m] \in WindowRows
       /\ y[m] \in WindowCols

\* C9: the cell loop of a point raises no error and fills exactly the 16
\* slots features[m, i, j], i, j in 0..3, slot (i, j) from the sub-cell of
\* side feature_width/4 at rows [i*feature_width/4, (i+1)*feature_width/4)
\* and the like columns, so that the sub-cells tile the window.
C9_CellGrid ==
  /\ raised # "IndexError"
  /\ cells # <<>> =>
       /\ DOMAIN cells = (0..3) \X (0..3)
       /\ \A c \in DOMAIN cells :
            /\ cells[c].r0 = c[1] * (feature_width \div 4)
            /\ cells[c].r1 = (c[1] + 1) * (feature_width \div 4)
            /\ cells[c].c0 = c[2] * (feature_width \div 4)
            /\ cells[c].c1 = (c[2] + 1) * (feature_width \div 4)
       /\ UNION {(cells[c].r0..(cells[c].r1 - 1)) \X (cells[c].c0..(cells[c].c1 - 1)) :
                   c \in DOMAIN cells}
            = (0..(feature_width - 1)) \X (0..(feature_width - 1))

\* C6: every row of the returned descriptor matrix has Euclidean norm 1.0
\* within 0.1 (its square, in hundredths squared, within 8100..12100) unless
\* the row is all-zero.
C6_UnitNorm ==
  pc = "done" =>
    \A k \in DOMAIN features :
      LET sq == SumSquares(features[k], 0, 127)
      IN sq = 0 \/ (8100 <= sq /\ sq <= 12100)

====
